---- MODULE Spec2Model ----
(***************************************************************************)
(* Model of rebalancer.py: Holdings.spend_cash_to_balance with its sell    *)
(* loop, its greedy buy loop (Holdings.buy_type) and the limit-price       *)
(* report (Holdings.limit_prices).                                         *)
(*                                                                         *)
(* Amounts are exact integers.  A composition weight w stands for w / CD,  *)
(* a target t for t / TD, so an allocation is a ratio of integers and      *)
(* every comparison of fractions is made by cross-multiplication.          *)
(***************************************************************************)
EXTENDS Integers, Sequences, FiniteSets, TLC

\* ------------------------------------------------------------------ bounds
MaxShares == 2      \* largest initial share count of a holding
MaxCash   == 2      \* largest initial cash balance
MaxPrice  == 2      \* largest current_price of a holding
MaxFree   == 3      \* lots of a holding priced 0 that the model follows being traded
TD        == 2      \* targets are multiples of 1 / TD
CD        == 2      \* composition weights are multiples of 1 / CD

\* ------------------------------------------------------------------ data
\* new_holdings.holdings after the cash holding, in the order of the input
HoldingOrder == <<"A", "B">>
Symbols      == {"A", "B"}
AllSymbols   == {"cash"} \cup Symbols

\* sort order of the type names (Python compares the names as strings)
TypeRank == [t \in {"cash", "other", "x", "y"} |->
               CASE t = "cash" -> 1 [] t = "other" -> 2 [] t = "x" -> 3 [] t = "y" -> 4]

Compositions ==
  {[t \in {"x"} |-> CD], [t \in {"y"} |-> CD]}
    \cup {[t \in {"x", "y"} |-> IF t = "x" THEN CD - k ELSE k] : k \in 1 .. (CD - 1)}

TargetSets ==
  {[t \in {"x", "y"} |-> IF t = "x" THEN a ELSE TD - a] : a \in 0 .. TD}
    \cup {[t \in {"x"} |-> TD]}
    \cup {[t \in {"x", "other"} |-> IF t = "x" THEN TD - 1 ELSE 1]}

VARIABLES
  json_holdings,   \* the input records: symbol -> [shares, current_price, composition, buy_additional]
  json_cash,       \* the merged shares of the input's cash records
  targets,         \* the target Proportions: type -> numerator over TD
  sell_shares,     \* the sell_shares argument of spend_cash_to_balance
  shares,          \* new_holdings: symbol (and "cash") -> shares
  pc,              \* position in spend_cash_to_balance
  total_buy_diff,  \* <<numerator, denominator>> computed once before the sell loop
  diffs,           \* the sorted type names the current buy iteration walks
  idx,             \* position of the for loop in diffs
  iters,           \* iterations of the buy loop started so far
  last,            \* the last buy_type / sell_type call and the state it saw
  report           \* what limit_prices computed

vars == <<json_holdings, json_cash, targets, sell_shares, shares, pc,
          total_buy_diff, diffs, idx, iters, last, report>>

inputs == <<json_holdings, json_cash, targets, sell_shares>>

Abs(n) == IF n < 0 THEN -n ELSE n

Sign(n) == IF n < 0 THEN -1 ELSE IF n > 0 THEN 1 ELSE 0

\* a / b < c / d for fractions <<a, b>>, <<c, d>> with b, d # 0
RatLess(p, q) == Sign(p[1] * q[2] - q[1] * p[2]) * Sign(p[2]) * Sign(q[2]) < 0

\* ------------------------------------------------------------------ Holding
current_price(s) == IF s = "cash" THEN 1 ELSE json_holdings[s].current_price

composition(s) ==
  IF s = "cash" THEN [t \in {"cash"} |-> CD] ELSE json_holdings[s].composition

buy_additional(s) == IF s = "cash" THEN FALSE ELSE json_holdings[s].buy_additional

\* Holding.current_value
HoldingValue(sh, s) == sh[s] * current_price(s)

\* ------------------------------------------------------------------ Holdings
\* Holdings.copy: a fresh Holdings built from the input records
CopyShares == [s \in AllSymbols |-> IF s = "cash" THEN json_cash ELSE json_holdings[s].shares]

\* Holdings.current_value
current_value(sh) == sh["cash"] + HoldingValue(sh, "A") + HoldingValue(sh, "B")

\* the keys of get_current_value_by_type
AllocTypes == {"cash"} \cup DOMAIN composition("A") \cup DOMAIN composition("B")

TypeWeight(s, t) == IF t \in DOMAIN composition(s) THEN composition(s)[t] ELSE 0

\* get_current_value_by_type()[t], times CD
ValueByType(sh, t) ==
  TypeWeight("cash", t) * sh["cash"]
    + TypeWeight("A", t) * HoldingValue(sh, "A")
    + TypeWeight("B", t) * HoldingValue(sh, "B")

\* get_current_allocations().get_type(t) as a fraction
Allocation(sh, t) == <<ValueByType(sh, t), CD * current_value(sh)>>

IsEligibleWhateverTheFlag(s, t) == t \in DOMAIN composition(s) /\ t \notin {"cash", "other"}

\* types_to_buy[t]: the purchase-eligible holdings of type t, in holdings order
IsEligible(s, t) == buy_additional(s) /\ t \in DOMAIN composition(s) /\ t \notin {"cash", "other"}

types_to_buy(t) == SelectSeq(HoldingOrder, LAMBDA s : IsEligible(s, t))

TypesToBuyKeys == {t \in {"x", "y"} : types_to_buy(t) # <<>>}

\* ------------------------------------------------------------------ Proportions
TargetOf(t) == IF t \in DOMAIN targets THEN targets[t] ELSE 0

\* the keys of targets.diff(allocations)
DiffTypes == DOMAIN targets \cup AllocTypes

\* targets.diff(allocations)[t] = DiffNum / (TD * CD * current_value)
DiffNum(sh, t) == TargetOf(t) * CD * current_value(sh) - (IF t \in AllocTypes THEN ValueByType(sh, t) ELSE 0) * TD

DiffOf(sh, t) == <<DiffNum(sh, t), TD * CD * current_value(sh)>>

\* (diff, name) tuples compared as Python compares them; d[TypeRank[t]] is the diff of t
TupleLess(d, a, b) ==
  \/ RatLess(d[TypeRank[a]], d[TypeRank[b]])
  \/ /\ ~RatLess(d[TypeRank[b]], d[TypeRank[a]])
     /\ TypeRank[a] < TypeRank[b]

RECURSIVE SortAscending(_, _)
SortAscending(d, S) ==
  IF S = {} THEN <<>>
  ELSE LET m == CHOOSE a \in S : \A b \in S \ {a} : TupleLess(d, a, b)
       IN <<m>> \o SortAscending(d, S \ {m})

Reverse(s) == [i \in 1 .. Len(s) |-> s[Len(s) + 1 - i]]

SortedDiffsAscending(sh, reverse) ==
  LET d == <<DiffOf(sh, "cash"), DiffOf(sh, "other"), DiffOf(sh, "x"), DiffOf(sh, "y")>>
  IN SortAscending(d, DiffTypes)

\* sorted(..., reverse = False) and sorted(..., reverse = True) of the diffs
SortedDiffs(sh, reverse) ==
  LET d == <<DiffOf(sh, "cash"), DiffOf(sh, "other"), DiffOf(sh, "x"), DiffOf(sh, "y")>>
      up == SortAscending(d, DiffTypes)
  IN IF reverse THEN Reverse(up) ELSE up

\* ------------------------------------------------------------------ buy_type
CanAffordByValue(sh, s) == current_price(s) < current_value(sh)

CanAffordOrEqual(sh, s) == current_price(s) <= sh["cash"]

\* new_price < self.cash
CanAfford(sh, s) == current_price(s) < sh["cash"]

\* holdings_we_can_afford_to_buy
holdings_we_can_afford_to_buy(sh, t) == SelectSeq(types_to_buy(t), LAMBDA s : CanAfford(sh, s))

\* h.buy_shares(num_shares) alone, as the simulation does
WithLot(sh, s) == [sh EXCEPT ![s] = @ + 1]

\* allocation_diff of candidate s: |new_allocation - target_allocation| as a fraction
allocation_diff(sh, t, s) ==
  LET a == Allocation(WithLot(sh, s), t)
  IN <<Abs(a[1] * TD - targets[t] * a[2]), Abs(a[2] * TD)>>

diffs_after_purchase(sh, t) ==
  LET c == holdings_we_can_afford_to_buy(sh, t)
  IN [i \in 1 .. Len(c) |-> <<allocation_diff(sh, t, c[i]), c[i]>>]

\* holding_to_buy = diffs_after_purchase[0][1]
holding_to_buy(sh, t) == diffs_after_purchase(sh, t)[1][2]

PurchaseWithoutPaying(sh, s) == [sh EXCEPT ![s] = @ + 1]

\* the purchase applied for real
Purchase(sh, s) == [sh EXCEPT ![s] = @ + 1, !["cash"] = @ - current_price(s)]

\* the sale applied for real
Sale(sh, s) == [sh EXCEPT ![s] = @ - 1, !["cash"] = @ + current_price(s)]

\* trading a holding priced 0 changes no value and no cash, so nothing ever ends
\* it: the model follows MaxFree such lots
Followed(sh, s) == current_price(s) = 0 => Abs(sh[s] - CopyShares[s]) < MaxFree

\* ------------------------------------------------------------------ limit_prices
\* get_shares_diffs(other)[symbol]
shares_diff(sh, s) == sh[s] - CopyShares[s]

\* the symbols whose price enters total_symbol_costs
CostedSymbol(sh, s) == s # "cash" /\ s # "other" /\ shares_diff(sh, s) # 0

total_symbol_costs(sh) ==
  (IF CostedSymbol(sh, "A") THEN current_price("A") ELSE 0)
    + (IF CostedSymbol(sh, "B") THEN current_price("B") ELSE 0)

\* the keys of shares_proportionality
Proportioned(sh) == {s \in Symbols : s # "other" /\ shares_diff(sh, s) > 0}

\* ------------------------------------------------------------------ history
NoCall == [op |-> "none", type |-> "none", ok |-> FALSE, raised |-> "none",
           symbol |-> "none", before |-> CopyShares]

Call(op, t, ok, raised, s) ==
  [op |-> op, type |-> t, ok |-> ok, raised |-> raised, symbol |-> s, before |-> shares]

NoReport == [made |-> FALSE, total_symbol_costs |-> 0, proportioned |-> {},
             cost_weight |-> <<>>, slippage |-> <<>>]

\* ------------------------------------------------------------------ Init
TypeOK ==
  /\ pc \in {"start", "sell", "buy", "try", "report", "done", "error"}
  /\ sell_shares \in BOOLEAN
  /\ idx \in Nat
  /\ iters \in Nat

Init ==
  /\ \/ /\ json_holdings \in
             [Symbols -> [shares : {0, MaxShares}, current_price : 0 .. MaxPrice,
                          composition : Compositions, buy_additional : BOOLEAN]]
        /\ json_holdings["B"].buy_additional
        /\ json_holdings["B"].current_price \in {1, MaxPrice}
        /\ json_cash \in 0 .. MaxCash
        /\ targets \in TargetSets
        /\ sell_shares \in BOOLEAN
     \/ \* cash 1000, A at 100, B at 50, both of one type, target 1.0 of it
        /\ json_holdings =
             [s \in Symbols |->
                [shares |-> 0, current_price |-> IF s = "A" THEN 100 ELSE 50,
                 composition |-> [t \in {"x"} |-> CD], buy_additional |-> TRUE]]
        /\ json_cash = 1000
        /\ targets = [t \in {"x"} |-> TD]
        /\ sell_shares = FALSE
  /\ shares = CopyShares
  /\ pc = "start"
  /\ total_buy_diff = <<0, 1>>
  /\ diffs = <<>>
  /\ idx = 0
  /\ iters = 0
  /\ last = NoCall
  /\ report = NoReport

\* ------------------------------------------------------------------ spend_cash_to_balance
ZeroValue(sh) == current_value(sh) = 0

PositivePart(n) == IF n > 0 THEN n ELSE 0

\* the sum of the positive diffs, over TD * CD * current_value
TotalBuyDiff(sh) ==
  <<PositivePart(DiffNum(sh, "cash")) + PositivePart(DiffNum(sh, "other"))
      + PositivePart(DiffNum(sh, "x")) + PositivePart(DiffNum(sh, "y")),
    TD * CD * current_value(sh)>>

\* new_holdings = self.copy(), then the branch on sell_shares
Start ==
  /\ pc = "start"
  /\ shares' = CopyShares
  /\ IF sell_shares
     THEN IF ZeroValue(CopyShares)
          THEN /\ pc' = "error"
               /\ last' = Call("allocations", "none", FALSE, "ZeroDivisionError", "none")
               /\ UNCHANGED total_buy_diff
          ELSE /\ pc' = "sell"
               /\ total_buy_diff' = TotalBuyDiff(CopyShares)
               /\ UNCHANGED last
     ELSE /\ pc' = "buy"
          /\ UNCHANGED <<total_buy_diff, last>>
  /\ UNCHANGED <<inputs, diffs, idx, iters, report>>

\* while total_buy_diff > cash_diff
SellGuard(sh) == RatLess(Allocation(sh, "cash"), total_buy_diff)

\* the first diff_name that is not cash, in ascending order of the diffs
SellOrder(sh) == SelectSeq(SortedDiffs(sh, FALSE), LAMBDA t : t # "cash")

\* one iteration of the sell loop: sell_type on the first type of SellOrder
SellStep ==
  /\ pc = "sell"
  /\ SellGuard(shares)
  /\ LET order == SellOrder(shares)
         t == order[1]
     IN /\ order # <<>>
        /\ t \in TypesToBuyKeys
        /\ \E i \in 1 .. Len(types_to_buy(t)) :
             LET s == types_to_buy(t)[i]
             IN /\ Followed(shares, s)
                /\ shares' = Sale(shares, s)
                /\ last' = Call("sell", t, TRUE, "none", s)
  /\ UNCHANGED <<inputs, pc, total_buy_diff, diffs, idx, iters, report>>

\* sell_type raises KeyError: types_to_buy has no such key
SellRaises ==
  /\ pc = "sell"
  /\ SellGuard(shares)
  /\ LET order == SellOrder(shares)
     IN /\ order # <<>>
        /\ order[1] \notin TypesToBuyKeys
        /\ last' = Call("sell", order[1], FALSE, "KeyError", "none")
  /\ pc' = "error"
  /\ UNCHANGED <<inputs, shares, total_buy_diff, diffs, idx, iters, report>>

SellEnd ==
  /\ pc = "sell"
  /\ ~SellGuard(shares)
  /\ pc' = "buy"
  /\ UNCHANGED <<inputs, shares, total_buy_diff, diffs, idx, iters, last, report>>

\* the for loop skips cash and other
Skipped(t) == t = "cash" \/ t = "other"

\* the first position from i on whose type is tried, Len + 1 when there is none
NextIdx(d, i) ==
  IF \E j \in i .. Len(d) : ~Skipped(d[j])
  THEN CHOOSE j \in i .. Len(d) : ~Skipped(d[j]) /\ \A k \in i .. (j - 1) : Skipped(d[k])
  ELSE Len(d) + 1

\* top of the while True loop: allocations, then the diffs sorted descending
BuyTop ==
  /\ pc = "buy"
  /\ iters' = iters + 1
  /\ IF ZeroValue(shares)
     THEN /\ pc' = "error"
          /\ last' = Call("allocations", "none", FALSE, "ZeroDivisionError", "none")
          /\ UNCHANGED <<diffs, idx>>
     ELSE LET d == SortedDiffs(shares, TRUE)
          IN /\ pc' = "try"
             /\ diffs' = d
             /\ idx' = NextIdx(d, 1)
             /\ UNCHANGED last
  /\ UNCHANGED <<inputs, shares, total_buy_diff, report>>

\* targets.get_type(type_to_buy), the argument of the call, raises KeyError
GetTypeRaises(t) == t \notin DOMAIN targets

\* types_to_buy[type_to_buy], the first lookup of buy_type, raises KeyError
TypesToBuyRaises(t) == t \notin TypesToBuyKeys

BuyTypeRaisesKeyError(t) == GetTypeRaises(t) \/ TypesToBuyRaises(t)

BuyTypeRaises ==
  /\ pc = "try"
  /\ idx <= Len(diffs)
  /\ BuyTypeRaisesKeyError(diffs[idx])
  /\ pc' = "error"
  /\ last' = Call(IF GetTypeRaises(diffs[idx]) THEN "get_type" ELSE "buy",
                  diffs[idx], FALSE, "KeyError", "none")
  /\ UNCHANGED <<inputs, shares, total_buy_diff, diffs, idx, iters, report>>

\* buy_type returns False: no holding of the type is affordable
BuyTypeFails ==
  /\ pc = "try"
  /\ idx <= Len(diffs)
  /\ ~BuyTypeRaisesKeyError(diffs[idx])
  /\ holdings_we_can_afford_to_buy(shares, diffs[idx]) = <<>>
  /\ idx' = NextIdx(diffs, idx + 1)
  /\ last' = Call("buy", diffs[idx], FALSE, "none", "none")
  /\ UNCHANGED <<inputs, shares, pc, total_buy_diff, diffs, iters, report>>

\* buy_type returns True: one lot of holding_to_buy is bought
BuyTypeSucceeds ==
  /\ pc = "try"
  /\ idx <= Len(diffs)
  /\ ~BuyTypeRaisesKeyError(diffs[idx])
  /\ holdings_we_can_afford_to_buy(shares, diffs[idx]) # <<>>
  /\ LET s == holding_to_buy(shares, diffs[idx])
     IN /\ Followed(shares, s)
        /\ shares' = Purchase(shares, s)
        /\ last' = Call("buy", diffs[idx], TRUE, "none", s)
  /\ pc' = "buy"
  /\ UNCHANGED <<inputs, total_buy_diff, diffs, idx, iters, report>>

\* every type was tried and none was bought: the while True loop breaks
BuyEnd ==
  /\ pc = "try"
  /\ idx > Len(diffs)
  /\ pc' = "report"
  /\ UNCHANGED <<inputs, shares, total_buy_diff, diffs, idx, iters, last, report>>

\* limit_prices(new_holdings)
LimitPrices(sh) ==
  [made |-> TRUE,
   total_symbol_costs |-> total_symbol_costs(sh),
   proportioned |-> Proportioned(sh),
   cost_weight |-> [s \in Proportioned(sh) |-> <<current_price(s), total_symbol_costs(sh)>>],
   slippage |-> [s \in Proportioned(sh) |->
                   <<current_price(s) * sh["cash"], total_symbol_costs(sh) * shares_diff(sh, s)>>]]

Report ==
  /\ pc = "report"
  /\ IF Proportioned(shares) # {} /\ total_symbol_costs(shares) = 0
     THEN /\ pc' = "error"
          /\ last' = Call("limit_prices", "none", FALSE, "ZeroDivisionError", "none")
          /\ UNCHANGED report
     ELSE /\ pc' = "done"
          /\ report' = LimitPrices(shares)
          /\ UNCHANGED last
  /\ UNCHANGED <<inputs, shares, total_buy_diff, diffs, idx, iters>>

Next ==
  \/ Start
  \/ SellStep
  \/ SellRaises
  \/ SellEnd
  \/ BuyTop
  \/ BuyTypeRaises
  \/ BuyTypeFails
  \/ BuyTypeSucceeds
  \/ BuyEnd
  \/ Report

Spec == Init /\ [][Next]_vars

\* ------------------------------------------------------------------ claims
TradedTypes == DiffTypes \ {"cash", "other"}

SeqToSet(q) == {q[i] : i \in 1 .. Len(q)}

BoughtNow == last.op = "buy" /\ last.ok

\* the affordable candidates of the last buy_type call, as the call saw them
Candidates == holdings_we_can_afford_to_buy(last.before, last.type)

MinimizesDiff(s) ==
  \A i \in 1 .. Len(Candidates) :
    ~RatLess(allocation_diff(last.before, last.type, Candidates[i]),
             allocation_diff(last.before, last.type, s))

\* C1: a successful buy_type buys the affordable eligible holding whose simulated
\* one-lot purchase minimizes |allocation of the type - target|, and among several
\* minimizers the first one in the type's eligibility-list order.
C1_BuysMinimizer ==
  BoughtNow =>
    \E i \in 1 .. Len(Candidates) :
      /\ Candidates[i] = last.symbol
      /\ MinimizesDiff(Candidates[i])
      /\ \A j \in 1 .. (i - 1) : ~MinimizesDiff(Candidates[j])

\* C2: starting from cash >= 0, cash is >= 0 after every successful buy_type and in
\* every state of the buy phase.
C2_CashNeverNegative == shares["cash"] >= 0

C2_Witness == BoughtNow /\ last.before["cash"] = MaxCash /\ shares["cash"] < MaxCash

EligibleSymbols == {s \in Symbols : \E t \in {"x", "y"} : IsEligible(s, t)}

MinEligiblePrice ==
  CHOOSE m \in {current_price(s) : s \in EligibleSymbols} :
    \A s \in EligibleSymbols : m <= current_price(s)

\* C3: the buy loop always terminates, within floor(initial_cash /
\* min_eligible_lot_price) + number_of_types iterations.  The loop decides on the
\* cash and the values alone, so it ends only if every purchase uses up cash, the
\* quantity the bound divides; and wherever the quotient is defined the number of
\* iterations started stays within the bound.
C3_BuyLoopBounded ==
  /\ BoughtNow => shares["cash"] < last.before["cash"]
  /\ (EligibleSymbols # {} /\ MinEligiblePrice > 0) =>
       iters <= (json_cash \div MinEligiblePrice) + Cardinality(TradedTypes)

BuyPhaseOver == pc \in {"report", "done"}

\* C4 as claimed: when the buy phase terminates, the residual cash is less than the
\* lot cost of the cheapest eligible holding (in the scenario: less than 50).
C4_ResidualBelowCheapest ==
  BuyPhaseOver => \A s \in EligibleSymbols : shares["cash"] < current_price(s)

InScenario == json_cash = 1000

\* C4 as amended: when the buy phase terminates, the residual cash is at most the
\* lot cost of the cheapest eligible holding; the scenario ends with cash exactly 50,
\* the price of B.
C4_ResidualAtMostCheapest ==
  BuyPhaseOver =>
    /\ \A s \in EligibleSymbols : shares["cash"] <= current_price(s)
    /\ InScenario => shares["cash"] = 50 /\ shares["A"] = 9 /\ shares["B"] = 1

C4_Witness == InScenario /\ pc = "done" /\ shares["cash"] = current_price("B")

\* C5: buy_type called for a type with no affordable holding, a type with no eligible
\* holding at all included, returns False and leaves shares and cash unchanged; it
\* does not raise.
C5_FailureIsBoolean ==
  (last.op = "buy" /\ holdings_we_can_afford_to_buy(last.before, last.type) = <<>>) =>
    /\ last.raised = "none"
    /\ ~last.ok
    /\ shares = last.before

\* C6: a holding with buy_additional = false keeps its initial share count through
\* every buy_type call and the whole rebalance.
C6_NotEligibleNeverTraded ==
  \A s \in Symbols : ~buy_additional(s) => shares[s] = json_holdings[s].shares

C6_Witness ==
  /\ ~buy_additional("A")
  /\ pc = "buy"
  /\ BoughtNow
  /\ NextIdx(diffs, 1) <= Len(diffs)
  /\ diffs[NextIdx(diffs, 1)] \in DOMAIN composition("A")
  /\ last.symbol = "B"

SumOver(f, S) ==
  (IF "A" \in S THEN f["A"] ELSE 0) + (IF "B" \in S THEN f["B"] ELSE 0)

PositiveDelta == {s \in Symbols : shares_diff(shares, s) > 0}

\* C7: the cost-weight of each symbol with a positive share delta is its price over
\* the sum of the prices of exactly the symbols with a positive delta, so the
\* weights sum to 1 and the slippage allowances times the deltas sum to the
\* rebalanced cash.
C7_WeightsSumToOne ==
  (pc = "done" /\ PositiveDelta # {}) =>
    /\ report.proportioned = PositiveDelta
    /\ report.total_symbol_costs = SumOver([s \in Symbols |-> current_price(s)], PositiveDelta)
    /\ \A s \in PositiveDelta :
         report.cost_weight[s] = <<current_price(s), report.total_symbol_costs>>
    /\ SumOver([s \in Symbols |->
                  IF s \in PositiveDelta THEN report.cost_weight[s][1] ELSE 0], PositiveDelta)
         = report.total_symbol_costs
    /\ SumOver([s \in Symbols |->
                  IF s \in PositiveDelta THEN report.slippage[s][1] ELSE 0], PositiveDelta)
         = shares["cash"] * report.total_symbol_costs

\* the cash fraction covers the sum of the positive deviations, both taken in sh
CashCovers(sh) == ~RatLess(Allocation(sh, "cash"), TotalBuyDiff(sh))

SellPhaseJustOver == sell_shares /\ pc = "buy" /\ iters = 0

\* C8: when the sell phase ends, the sum of the positive deviations of the
\* allocation at that moment does not exceed the cash fraction at that moment; and
\* every sale was made while the sum exceeded the cash fraction.
C8_CashCoversAtSellEnd ==
  /\ SellPhaseJustOver => CashCovers(shares)
  /\ last.op = "sell" /\ last.ok => ~CashCovers(last.before)

\* the diff of type a is larger than the diff of type b in sh
LargerDiff(sh, a, b) == RatLess(DiffOf(sh, b), DiffOf(sh, a))

\* C9: the types other than cash and other are tried in descending order of the
\* deviation computed at the start of the iteration, and the lot bought belongs to
\* the first type in that order for which buy_type succeeds: no type with a larger
\* deviation has an affordable eligible holding.
\* the for loop walks diffs, sorted descending by the diffs of sh, and every type it
\* has passed was skipped or had no affordable holding
WalkedInOrder(sh) ==
  /\ SeqToSet(diffs) = DiffTypes
  /\ \A i, j \in 1 .. Len(diffs) : i < j => ~LargerDiff(sh, diffs[j], diffs[i])
  /\ \A j \in 1 .. (idx - 1) :
       Skipped(diffs[j]) \/ holdings_we_can_afford_to_buy(sh, diffs[j]) = <<>>

C9_MostUnderweightFirst ==
  /\ pc = "try" => WalkedInOrder(shares)
  /\ (pc = "buy" /\ BoughtNow) =>
       /\ idx \in 1 .. Len(diffs)
       /\ diffs[idx] = last.type
       /\ WalkedInOrder(last.before)
       /\ \A t \in TradedTypes :
            LargerDiff(last.before, t, last.type)
              => holdings_we_can_afford_to_buy(last.before, t) = <<>>

C9_Witness ==
  /\ pc = "buy"
  /\ BoughtNow
  /\ \E j \in 1 .. (idx - 1) :
       /\ ~Skipped(diffs[j])
       /\ LargerDiff(last.before, diffs[j], last.type)
       /\ types_to_buy(diffs[j]) # <<>>

\* C10: a successful buy_type adds one lot to exactly one holding and removes its
\* price from cash, sell_type does the reverse, a failed buy_type changes nothing;
\* so the working copy's total value always equals the original portfolio's.
C10_ValueConserved ==
  /\ current_value(shares) = current_value(CopyShares)
  /\ BoughtNow =>
       shares = [last.before EXCEPT ![last.symbol] = @ + 1,
                                    !["cash"] = @ - current_price(last.symbol)]
  /\ last.op = "sell" /\ last.ok =>
       shares = [last.before EXCEPT ![last.symbol] = @ - 1,
                                    !["cash"] = @ + current_price(last.symbol)]
  /\ last.op = "buy" /\ ~last.ok => shares = last.before

C10_Witness ==
  /\ pc = "done"
  /\ shares_diff(shares, "A") < 0
  /\ shares_diff(shares, "B") > 0
  /\ current_price("A") # current_price("B")
  /\ current_price("A") > 0

====
